---- MODULE Spec2Model ----
(***************************************************************************)
(* Model of .agent/scripts/pr.py: the review-thread inventory printer.     *)
(*                                                                         *)
(* Text is a sequence of one-character strings, so that padding,           *)
(* replacement and slicing are computed character by character.  A decoded *)
(* JSON value is a record [k, v] tagged with its Python type: dict ("obj"),*)
(* list ("arr"), str, int, bool or None ("null"); a dict is a function from *)
(* its keys, so an absent key is a key outside its DOMAIN.                  *)
(***************************************************************************)
EXTENDS Integers, Sequences, FiniteSets, TLC

\* argv         sys.argv: the script's name, then the arguments (lines 35, 38)
\* fs           what each path names on the file system (lines 11, 15, 16)
\* pc           where the process is: "main", "exists", "open", "load",
\*              "with_exit", "navigate", "header", "separator", "loop", "exited"
\* file_path    inventory's parameter (line 10)
\* f_open       whether the handle f of line 15 is open
\* pending      the exception raised inside the with block, "none" if none
\* data         line 16
\* threads      line 18
\* idx          position in threads of the next pass of the loop of line 23
\* stdout       the lines printed to standard output, oldest first
\* stderr       the lines the program printed to the diagnostic stream
\* exit_status  the process's exit status, -1 while it runs
\* exc          the uncaught exception that ended the process, "none" if none
\* row_of       history: for each printed row, the position of its thread
\* trace        history: the calls made, in order ("inventory", "exists",
\*              "open", "load", "close", "print")
VARIABLES argv, fs, pc, file_path, f_open, pending, data, threads, idx,
          stdout, stderr, exit_status, exc, row_of, trace

vars == <<argv, fs, pc, file_path, f_open, pending, data, threads, idx,
          stdout, stderr, exit_status, exc, row_of, trace>>

\* ------------------------------------------------------------------ bounds
\* Longest nodes list drawn from CoreThreads, and from the whole ThreadSet.
MaxThreads == 3
MaxMixed == 2

\* ------------------------------------------------------- program constants
IdWidth == 20
PathWidth == 30
LineWidth == 5
StatusWidth == 10
RuleWidth == 100
BodyMax == 50

Min(a, b) == IF a < b THEN a ELSE b
Max(a, b) == IF a > b THEN a ELSE b

\* --------------------------------------------------------------- JSON values
JNull == [k |-> "null", v |-> FALSE]
JBool(b) == [k |-> "bool", v |-> b]
JInt(n) == [k |-> "int", v |-> n]
JStr(s) == [k |-> "str", v |-> s]
JArr(a) == [k |-> "arr", v |-> a]
JObj(m) == [k |-> "obj", v |-> m]
EmptyObj == JObj(<<>>)
EmptyArr == JArr(<<>>)
\* A name that is not bound yet.
Unbound == [k |-> "unbound", v |-> FALSE]

\* The result of evaluating an expression: a value, or the exception raised.
Ok(v) == [err |-> "none", v |-> v]
Raise(e) == [err |-> e, v |-> JNull]

\* ---------------------------------------------------- Python's primitives
\* bool(v), as the `if` and the `or` of line 24 apply it.
Truthy(v) ==
    CASE v.k = "null" -> FALSE
      [] v.k = "bool" -> v.v
      [] v.k = "int" -> v.v # 0
      [] v.k = "str" -> Len(v.v) > 0
      [] v.k = "arr" -> Len(v.v) > 0
      [] v.k = "obj" -> DOMAIN v.v # {}

\* Get with the default forgotten: d.get(key).
GetNoDefault(r, key, default) ==
    IF r.err # "none" THEN r
    ELSE IF r.v.k # "obj" THEN Raise("AttributeError")
    ELSE IF key \in DOMAIN r.v.v THEN Ok(r.v.v[key]) ELSE Ok(JNull)

\* d.get(key, default)
Get(r, key, default) ==
    IF r.err # "none" THEN r
    ELSE IF r.v.k # "obj" THEN Raise("AttributeError")
    ELSE IF key \in DOMAIN r.v.v THEN Ok(r.v.v[key]) ELSE Ok(default)

\* GetItem with a default for an absent key: v.get(key, '').
GetItemDefault(r, key) ==
    IF r.err # "none" THEN r
    ELSE IF r.v.k # "obj" THEN Raise("TypeError")
    ELSE IF key \in DOMAIN r.v.v THEN Ok(r.v.v[key]) ELSE Ok(JStr(<<>>))

\* v[key] with a string key
GetItem(r, key) ==
    IF r.err # "none" THEN r
    ELSE IF r.v.k # "obj" THEN Raise("TypeError")
    ELSE IF key \in DOMAIN r.v.v THEN Ok(r.v.v[key]) ELSE Raise("KeyError")

\* v[0]
GetFirst(r) ==
    IF r.err # "none" THEN r
    ELSE CASE r.v.k = "arr" ->
                IF Len(r.v.v) > 0 THEN Ok(r.v.v[1]) ELSE Raise("IndexError")
           [] r.v.k = "str" ->
                IF Len(r.v.v) > 0 THEN Ok(JStr(<<r.v.v[1]>>)) ELSE Raise("IndexError")
           [] r.v.k = "obj" -> Raise("KeyError")
           [] OTHER -> Raise("TypeError")

\* Replace that stops after the first occurrence.
ReplaceFirst(s, old, new) ==
    [i \in 1..Len(s) |->
        IF s[i] = old /\ (\A j \in 1..(i - 1) : s[j] # old) THEN new ELSE s[i]]

\* s.replace(old, new) for one-character old and new
Replace(s, old, new) == [i \in 1..Len(s) |-> IF s[i] = old THEN new ELSE s[i]]

\* s[:n]
Slice(s, n) == SubSeq(s, 1, Min(n, Len(s)))

\* v.replace('\n', ' ')[:50]
CommentOf(r) ==
    IF r.err # "none" THEN r
    ELSE IF r.v.k # "str" THEN Raise("AttributeError")
    ELSE Ok(JStr(Slice(Replace(r.v.v, "\n", " "), BodyMax)))

Digit(d) ==
    CASE d = 0 -> "0" [] d = 1 -> "1" [] d = 2 -> "2" [] d = 3 -> "3"
      [] d = 4 -> "4" [] d = 5 -> "5" [] d = 6 -> "6" [] d = 7 -> "7"
      [] d = 8 -> "8" [] d = 9 -> "9"

RECURSIVE NatToStr(_)
NatToStr(n) ==
    IF n < 10 THEN <<Digit(n)>> ELSE NatToStr(n \div 10) \o <<Digit(n % 10)>>

\* str(n)
IntToStr(n) == IF n < 0 THEN <<"-">> \o NatToStr(0 - n) ELSE NatToStr(n)

\* LJust that also cuts to the width.
LJustCut(s, w) == SubSeq(s \o [i \in 1..w |-> " "], 1, w)

\* s.ljust(w): pads on the right, never cuts
LJust(s, w) == IF Len(s) >= w THEN s ELSE s \o [i \in 1..(w - Len(s)) |-> " "]

\* format(v, '<w') as the f-strings of lines 20 and 32 apply it
Format(r, w) ==
    IF r.err # "none" THEN r
    ELSE CASE r.v.k = "str" -> Ok(JStr(LJust(r.v.v, w)))
           [] r.v.k = "int" -> Ok(JStr(LJust(IntToStr(r.v.v), w)))
           [] r.v.k = "bool" -> Ok(JStr(LJust(IF r.v.v THEN <<"1">> ELSE <<"0">>, w)))
           [] OTHER -> Raise("TypeError")

\* The first exception raised by a sequence of evaluations, "none" if none.
RECURSIVE FirstErr(_)
FirstErr(rs) ==
    IF rs = <<>> THEN "none"
    ELSE IF Head(rs).err # "none" THEN Head(rs).err ELSE FirstErr(Tail(rs))

\* -------------------------------------------------- the program's texts
\* line 36
UsageText ==
    <<"U", "s", "a", "g", "e", ":", " ", "u", "v", " ", "r", "u", "n", " ",
      "p", "r", ".", "p", "y", " ", "<", "t", "h", "r", "e", "a", "d", "s",
      ".", "j", "s", "o", "n", ">">>

\* line 12: f"Error: {file_path} not found"
NotFoundText(path) ==
    <<"E", "r", "r", "o", "r", ":", " ">> \o path
        \o <<" ", "n", "o", "t", " ", "f", "o", "u", "n", "d">>

Sp == <<" ">>
OpenLabel == <<"O", "P", "E", "N">>

\* line 20
HeaderText ==
    LJust(<<"T", "H", "R", "E", "A", "D", " ", "I", "D">>, IdWidth) \o Sp
        \o LJust(<<"P", "A", "T", "H">>, PathWidth) \o Sp
        \o LJust(<<"L", "I", "N", "E">>, LineWidth) \o Sp
        \o LJust(<<"S", "T", "A", "T", "U", "S">>, StatusWidth) \o Sp
        \o <<"C", "O", "M", "M", "E", "N", "T">>

\* line 21: "-" * 100
SeparatorText == [i \in 1..RuleWidth |-> "-"]

\* line 18: the chain of .get() calls
NavigateTo(doc) ==
    Get(Get(Get(Get(Get(Ok(doc), "data", EmptyObj), "repository", EmptyObj),
                "pullRequest", EmptyObj), "reviewThreads", EmptyObj),
        "nodes", EmptyArr)

\* line 23: what `for t in threads` iterates over.  A list yields its items, a
\* str its characters, a dict its keys (each a str, whose text plays no part);
\* anything else is not iterable.
Iter(v) ==
    CASE v.k = "arr" -> Ok(v.v)
      [] v.k = "str" -> Ok([i \in 1..Len(v.v) |-> JStr(<<v.v[i]>>)])
      [] v.k = "obj" -> Ok([i \in 1..Cardinality(DOMAIN v.v) |-> JStr(<<"k">>)])
      [] OTHER -> Raise("TypeError")

\* Skip with the isResolved operand forgotten.
SkipOutdatedOnly(t) ==
    LET o == GetItem(Ok(t), "isOutdated")
    IN  IF o.err # "none" THEN [err |-> o.err, skip |-> FALSE]
        ELSE [err |-> "none", skip |-> Truthy(o.v)]

\* line 24: t['isOutdated'] or t['isResolved'], the right operand evaluated
\* only when the left one is falsy.
Skip(t) ==
    LET o == GetItem(Ok(t), "isOutdated")
        r == GetItem(Ok(t), "isResolved")
    IN  IF o.err # "none" THEN [err |-> o.err, skip |-> FALSE]
        ELSE IF Truthy(o.v) THEN [err |-> "none", skip |-> TRUE]
        ELSE IF r.err # "none" THEN [err |-> r.err, skip |-> FALSE]
        ELSE [err |-> "none", skip |-> Truthy(r.v)]

\* line 30: t['comments']['nodes'][0]['body'].replace('\n', ' ')[:50]
Body(t) ==
    CommentOf(GetItem(GetFirst(GetItem(GetItem(Ok(t), "comments"), "nodes")),
                      "body"))

\* lines 27-32: the row printed for thread t, or the first exception raised
\* on the way to it.
Row(t) ==
    LET tid == GetItem(Ok(t), "id")
        path == GetItem(Ok(t), "path")
        line == GetItem(Ok(t), "line")
        body == Body(t)
        f1 == Format(tid, IdWidth)
        f2 == Format(path, PathWidth)
        f3 == Format(line, LineWidth)
        e == FirstErr(<<tid, path, line, body, f1, f2, f3>>)
    IN  IF e # "none" THEN Raise(e)
        ELSE Ok(JStr(f1.v.v \o Sp \o f2.v.v \o Sp \o f3.v.v \o Sp
                     \o LJust(OpenLabel, StatusWidth) \o Sp \o body.v.v))

\* ------------------------------------------------------------------ inputs
Prog == <<"p", "r", ".", "p", "y">>
PathA == <<"t", ".", "j", "s", "o", "n">>
PathB == <<"x", ".", "j", "s", "o", "n">>
Paths == {PathA, PathB}

\* What a path names: nothing, a directory (exists, cannot be opened for
\* reading), a file whose text is not JSON, or a file holding a document.
Missing == [kind |-> "missing", doc |-> JNull]
Directory == [kind |-> "dir", doc |-> JNull]
Malformed == [kind |-> "malformed", doc |-> JNull]
JsonFile(d) == [kind |-> "json", doc |-> d]

\* Comment bodies: the one of the spec's scenario, one longer than the cut
\* with newlines on both sides of it, the empty one, one of exactly the cut.
BodyShort ==
    <<"l", "i", "n", "e", " ", "o", "n", "e", "\n",
      "l", "i", "n", "e", " ", "t", "w", "o">>
BodyLong ==
    [i \in 1..(BodyMax + 2) |->
        IF i \in {3, BodyMax, BodyMax + 1} THEN "\n"
        ELSE IF i = BodyMax + 2 THEN "z" ELSE "x"]
BodyEmpty == <<>>
BodyExact == [i \in 1..BodyMax |-> "y"]
BodyIgnored == <<"i", "g", "n", "o", "r", "e", "d">>

Comments(body) == JObj([nodes |-> JArr(<<JObj([body |-> body])>>)])

Thread(id, path, line, outdated, resolved, body) ==
    JObj([id |-> JStr(id), path |-> JStr(path), line |-> JInt(line),
          isOutdated |-> JBool(outdated), isResolved |-> JBool(resolved),
          comments |-> Comments(JStr(body))])

Drop(t, key) == JObj([x \in DOMAIN t.v \ {key} |-> t.v[x]])
With(t, key, val) ==
    JObj([x \in DOMAIN t.v \cup {key} |-> IF x = key THEN val ELSE t.v[x]])

T1 == Thread(<<"T", "1">>, <<"a", ".", "p", "y">>, 10, FALSE, FALSE, BodyShort)
T2 == Thread(<<"T", "2">>, <<"b", ".", "p", "y">>, 5, FALSE, FALSE, BodyLong)
T3 == Thread([i \in 1..(IdWidth + 1) |-> "I"], [i \in 1..(PathWidth + 2) |-> "p"],
             123456, FALSE, FALSE, BodyEmpty)
T4 == Thread(<<"T", "4">>, <<"c">>, -7, FALSE, FALSE, BodyExact)

\* Threads every field of which has the type the data model gives it.
OpenThreads == {T1, T2, T3, T4}
ClosedThreads ==
    { With(With(T2, "comments", Comments(JStr(BodyIgnored))), "isOutdated", JBool(TRUE)),
      With(T1, "isResolved", JBool(TRUE)),
      With(With(T4, "isOutdated", JBool(TRUE)), "isResolved", JBool(TRUE)) }

\* Threads that are skipped, or would be, with fields absent.
ClosedBare ==
    { JObj([isOutdated |-> JBool(TRUE)]),
      JObj([isOutdated |-> JBool(FALSE), isResolved |-> JBool(TRUE)]),
      JObj([isResolved |-> JBool(TRUE)]) }

\* Threads that are not skipped, with a field absent or of another type.
OpenBroken ==
    { Drop(T1, "id"), Drop(T1, "path"), Drop(T1, "line"), Drop(T1, "comments"),
      With(T1, "comments", EmptyObj),
      With(T1, "comments", JObj([nodes |-> EmptyArr])),
      With(T1, "comments", JObj([nodes |-> JArr(<<EmptyObj>>)])),
      Drop(T1, "isOutdated"), Drop(T1, "isResolved"),
      With(T1, "line", JNull),
      With(T1, "comments", Comments(JNull)),
      JNull }

\* Threads whose flags are null: falsy, so the thread is printed.
OpenNullFlags == { With(With(T2, "isOutdated", JNull), "isResolved", JNull) }

ThreadSet == OpenThreads \cup ClosedThreads \cup ClosedBare \cup OpenBroken
                \cup OpenNullFlags

\* The threads the longer lists are made of: one of each way a pass of the
\* loop can go.
CoreThreads ==
    { T1, T2,
      With(T1, "isResolved", JBool(TRUE)),
      JObj([isOutdated |-> JBool(TRUE)]),
      Drop(T1, "id"),
      Drop(T1, "isOutdated"),
      With(T1, "comments", JObj([nodes |-> EmptyArr])) }

ThreadSeqs ==
    (UNION { [1..n -> ThreadSet] : n \in 0..MaxMixed })
        \cup (UNION { [1..n -> CoreThreads] : n \in 0..MaxThreads })

Envelope(nodes) ==
    JObj([data |-> JObj([repository |-> JObj([pullRequest |->
        JObj([reviewThreads |-> JObj([nodes |-> nodes])])])])])

\* Documents with a key of the path absent at its level.
AbsentDocs ==
    { EmptyObj,
      JObj([data |-> EmptyObj]),
      JObj([data |-> JObj([repository |-> EmptyObj])]),
      JObj([data |-> JObj([repository |-> JObj([pullRequest |-> EmptyObj])])]),
      JObj([data |-> JObj([repository |-> JObj([pullRequest |->
          JObj([reviewThreads |-> EmptyObj])])])]) }

\* Documents with something other than a mapping, or a list, on the path.
OddDocs ==
    { JNull, EmptyArr,
      JObj([data |-> JNull]),
      JObj([data |-> JObj([repository |-> JObj([pullRequest |->
          JObj([reviewThreads |-> JNull])])])]),
      Envelope(JNull), Envelope(EmptyObj), Envelope(JObj([a |-> JNull])),
      Envelope(JStr(<<"s">>)) }

Docs == AbsentDocs \cup OddDocs \cup { Envelope(JArr(ts)) : ts \in ThreadSeqs }

Files == {Missing, Directory, Malformed} \cup { JsonFile(d) : d \in Docs }
FewFiles == {Missing, Directory, Malformed, JsonFile(EmptyObj),
             JsonFile(Envelope(JArr(<<T1>>)))}

\* -------------------------------------------------------------- the process
\* TooFewArgs with the bound off by one.
TooFewArgsOffByOne(a) == Len(a) < 1

\* line 35: len(sys.argv) < 2
TooFewArgs(a) == Len(a) < 2

\* line 38: sys.argv[1]
ArgAt(a, i) == IF i + 1 <= Len(a) THEN Ok(JStr(a[i + 1])) ELSE Raise("IndexError")

\* FileExists with the check dropped.
FileExistsAlways(p) == Len(p) >= 0

\* line 11: os.path.exists(file_path)
FileExists(p) == fs[p].kind # "missing"

\* line 15: open(file_path, 'r') succeeds on a file; it raises on a directory
\* and on a name that is gone.
CanOpen(p) == fs[p].kind \notin {"missing", "dir"}

Init ==
    /\ \/ /\ argv = <<Prog, PathA>>
          /\ \E f \in Files : fs = [p \in Paths |-> IF p = PathA THEN f ELSE Missing]
       \/ /\ argv \in {<<Prog>>, <<Prog, PathB>>, <<Prog, PathA, PathB>>}
          /\ fs \in [Paths -> FewFiles]
    /\ pc = "main"
    /\ file_path = <<>>
    /\ f_open = FALSE
    /\ pending = "none"
    /\ data = Unbound
    /\ threads = Unbound
    /\ idx = 1
    /\ stdout = <<>>
    /\ stderr = <<>>
    /\ exit_status = -1
    /\ exc = "none"
    /\ row_of = <<>>
    /\ trace = <<>>

\* An uncaught exception: the interpreter prints the traceback and exits 1.
Uncaught(e) ==
    /\ pc' = "exited"
    /\ exit_status' = 1
    /\ exc' = e

\* lines 34-38
Main ==
    /\ pc = "main"
    /\ IF TooFewArgs(argv)
       THEN /\ stderr' = Append(stderr, UsageText)
            /\ pc' = "exited"
            /\ exit_status' = 1
            /\ UNCHANGED <<file_path, trace, exc>>
       ELSE LET a == ArgAt(argv, 1)
            IN  IF a.err # "none"
                THEN Uncaught(a.err) /\ UNCHANGED <<file_path, trace, stderr>>
                ELSE /\ file_path' = a.v.v
                     /\ pc' = "exists"
                     /\ trace' = Append(trace, "inventory")
                     /\ UNCHANGED <<stderr, exit_status, exc>>
    /\ UNCHANGED <<argv, fs, f_open, pending, data, threads, idx, stdout, row_of>>

\* Exists with the header printed before the check.
ExistsAfterHeader ==
    /\ pc = "exists"
    /\ trace' = Append(Append(trace, "print"), "exists")
    /\ stdout' = Append(stdout, HeaderText)
    /\ IF ~FileExists(file_path)
       THEN /\ stderr' = Append(stderr, NotFoundText(file_path))
            /\ pc' = "exited"
            /\ exit_status' = 1
       ELSE /\ pc' = "open"
            /\ UNCHANGED <<stderr, exit_status>>
    /\ UNCHANGED <<argv, fs, file_path, f_open, pending, data, threads, idx,
                   exc, row_of>>

\* lines 11-13
Exists ==
    /\ pc = "exists"
    /\ trace' = Append(trace, "exists")
    /\ IF ~FileExists(file_path)
       THEN /\ stderr' = Append(stderr, NotFoundText(file_path))
            /\ pc' = "exited"
            /\ exit_status' = 1
       ELSE /\ pc' = "open"
            /\ UNCHANGED <<stderr, exit_status>>
    /\ UNCHANGED <<argv, fs, file_path, f_open, pending, data, threads, idx,
                   stdout, exc, row_of>>

\* line 15: open(file_path, 'r')
Open ==
    /\ pc = "open"
    /\ IF ~CanOpen(file_path)
       THEN /\ Uncaught("OSError")
            /\ UNCHANGED <<f_open, trace>>
       ELSE /\ f_open' = TRUE
            /\ trace' = Append(trace, "open")
            /\ pc' = "load"
            /\ UNCHANGED <<exit_status, exc>>
    /\ UNCHANGED <<argv, fs, file_path, pending, data, threads, idx, stdout,
                   stderr, row_of>>

\* line 16: json.load(f), inside the with block
Load ==
    /\ pc = "load"
    /\ trace' = Append(trace, "load")
    /\ IF fs[file_path].kind = "json"
       THEN data' = fs[file_path].doc /\ UNCHANGED pending
       ELSE pending' = "JSONDecodeError" /\ UNCHANGED data
    /\ pc' = "with_exit"
    /\ UNCHANGED <<argv, fs, file_path, f_open, threads, idx, stdout, stderr,
                   exit_status, exc, row_of>>

\* WithExit that closes the file only when the block ended normally, as
\* open() and close() around json.load() without a with block would.
WithExitLeak ==
    /\ pc = "with_exit"
    /\ IF pending # "none"
       THEN Uncaught(pending) /\ UNCHANGED <<f_open, trace>>
       ELSE /\ f_open' = FALSE
            /\ trace' = Append(trace, "close")
            /\ pc' = "navigate"
            /\ UNCHANGED <<exit_status, exc>>
    /\ UNCHANGED <<argv, fs, file_path, pending, data, threads, idx, stdout,
                   stderr, row_of>>

\* lines 15-16: leaving the with block closes the file, whether the block
\* ended normally or by an exception, which then propagates.
WithExit ==
    /\ pc = "with_exit"
    /\ trace' = Append(trace, "close")
    /\ f_open' = FALSE
    /\ IF pending # "none"
       THEN Uncaught(pending)
       ELSE pc' = "navigate" /\ UNCHANGED <<exit_status, exc>>
    /\ UNCHANGED <<argv, fs, file_path, pending, data, threads, idx, stdout,
                   stderr, row_of>>

\* line 18
Navigate ==
    /\ pc = "navigate"
    /\ LET r == NavigateTo(data)
       IN  IF r.err # "none"
           THEN Uncaught(r.err) /\ UNCHANGED threads
           ELSE threads' = r.v /\ pc' = "header" /\ UNCHANGED <<exit_status, exc>>
    /\ UNCHANGED <<argv, fs, file_path, f_open, pending, data, idx, stdout,
                   stderr, row_of, trace>>

\* line 20
PrintHeader ==
    /\ pc = "header"
    /\ stdout' = Append(stdout, HeaderText)
    /\ trace' = Append(trace, "print")
    /\ pc' = "separator"
    /\ UNCHANGED <<argv, fs, file_path, f_open, pending, data, threads, idx,
                   stderr, exit_status, exc, row_of>>

\* line 21
PrintSeparator ==
    /\ pc = "separator"
    /\ stdout' = Append(stdout, SeparatorText)
    /\ trace' = Append(trace, "print")
    /\ pc' = "loop"
    /\ UNCHANGED <<argv, fs, file_path, f_open, pending, data, threads, idx,
                   stderr, exit_status, exc, row_of>>

\* For with the rows held back until the loop ends: a failing thread ends the
\* run with the rows before it lost.
ForHoldsRows ==
    /\ pc = "loop"
    /\ LET it == Iter(threads)
       IN  IF it.err # "none"
           THEN Uncaught(it.err) /\ UNCHANGED <<idx, stdout, row_of, trace>>
           ELSE /\ idx <= Len(it.v)
                /\ LET t == it.v[idx]
                       s == Skip(t)
                       r == Row(t)
                   IN  IF s.err # "none" \/ (~s.skip /\ r.err # "none")
                       THEN /\ Uncaught(IF s.err # "none" THEN s.err ELSE r.err)
                            /\ stdout' = SubSeq(stdout, 1, 2)
                            /\ row_of' = <<>>
                            /\ UNCHANGED <<idx, trace>>
                       ELSE IF s.skip
                       THEN /\ idx' = idx + 1
                            /\ UNCHANGED <<pc, exit_status, exc, stdout, row_of, trace>>
                       ELSE /\ stdout' = Append(stdout, r.v.v)
                            /\ row_of' = Append(row_of, idx)
                            /\ trace' = Append(trace, "print")
                            /\ idx' = idx + 1
                            /\ UNCHANGED <<pc, exit_status, exc>>
    /\ UNCHANGED <<argv, fs, file_path, f_open, pending, data, threads, stderr>>

\* lines 23-32: one pass of the loop body over the next thread
For ==
    /\ pc = "loop"
    /\ LET it == Iter(threads)
       IN  IF it.err # "none"
           THEN Uncaught(it.err) /\ UNCHANGED <<idx, stdout, row_of, trace>>
           ELSE /\ idx <= Len(it.v)
                /\ LET t == it.v[idx]
                       s == Skip(t)
                       r == Row(t)
                   IN  IF s.err # "none"
                       THEN Uncaught(s.err) /\ UNCHANGED <<idx, stdout, row_of, trace>>
                       ELSE IF s.skip
                       THEN /\ idx' = idx + 1
                            /\ UNCHANGED <<pc, exit_status, exc, stdout, row_of, trace>>
                       ELSE IF r.err # "none"
                       THEN Uncaught(r.err) /\ UNCHANGED <<idx, stdout, row_of, trace>>
                       ELSE /\ stdout' = Append(stdout, r.v.v)
                            /\ row_of' = Append(row_of, idx)
                            /\ trace' = Append(trace, "print")
                            /\ idx' = idx + 1
                            /\ UNCHANGED <<pc, exit_status, exc>>
    /\ UNCHANGED <<argv, fs, file_path, f_open, pending, data, threads, stderr>>

\* lines 23, 38: the loop is exhausted, inventory returns, the script ends
Return ==
    /\ pc = "loop"
    /\ Iter(threads).err = "none"
    /\ idx > Len(Iter(threads).v)
    /\ pc' = "exited"
    /\ exit_status' = 0
    /\ UNCHANGED <<argv, fs, file_path, f_open, pending, data, threads, idx,
                   stdout, stderr, exc, row_of, trace>>

Next ==
    \/ Main
    \/ Exists
    \/ Open
    \/ Load
    \/ WithExit
    \/ Navigate
    \/ PrintHeader
    \/ PrintSeparator
    \/ For
    \/ Return

Spec == Init /\ [][Next]_vars

\* ================================================================ claims
\* The input of a run, read off the command line and the file system.
HasDoc == Len(argv) >= 2 /\ fs[argv[2]].kind = "json"
TheDoc == fs[argv[2]].doc
PathKeys == <<"data", "repository", "pullRequest", "reviewThreads", "nodes">>

RECURSIVE Descend(_, _)
Descend(v, keys) ==
    IF keys = <<>> THEN v
    ELSE IF v.k = "obj" /\ Head(keys) \in DOMAIN v.v
         THEN Descend(v.v[Head(keys)], Tail(keys))
         ELSE Unbound

HasNodeList == HasDoc /\ Descend(TheDoc, PathKeys).k = "arr"
NodeList == Descend(TheDoc, PathKeys).v

HasKey(t, key) == t.k = "obj" /\ key \in DOMAIN t.v
IsTrue(t, key) == HasKey(t, key) /\ t.v[key].k = "bool" /\ t.v[key].v
IsFalse(t, key) == HasKey(t, key) /\ t.v[key].k = "bool" /\ ~t.v[key].v
HasType(t, key, kind) == HasKey(t, key) /\ t.v[key].k = kind

Flagged(t) == IsTrue(t, "isResolved") \/ IsTrue(t, "isOutdated")
IsOpen(t) == IsFalse(t, "isOutdated") /\ IsFalse(t, "isResolved")

HasFirstBody(t) ==
    /\ HasType(t, "comments", "obj")
    /\ HasType(t.v["comments"], "nodes", "arr")
    /\ Len(t.v["comments"].v["nodes"].v) > 0
    /\ HasType(t.v["comments"].v["nodes"].v[1], "body", "str")
FirstBody(t) == t.v["comments"].v["nodes"].v[1].v["body"].v

HasRowFields(t) ==
    /\ HasType(t, "id", "str") /\ HasType(t, "path", "str")
    /\ HasType(t, "line", "int") /\ HasFirstBody(t)

WellFormedThread(t) ==
    /\ HasRowFields(t)
    /\ HasType(t, "isOutdated", "bool") /\ HasType(t, "isResolved", "bool")

WellFormedDoc ==
    HasNodeList /\ \A i \in 1..Len(NodeList) : WellFormedThread(NodeList[i])

\* The columns of a row: a field starts at `from`, holds `text`, is filled with
\* spaces up to its width and is followed by one space.
ColEnd(from, text, w) == from + Max(Len(text), w) - 1
HasField(row, from, text, w) ==
    /\ ColEnd(from, text, w) + 1 <= Len(row)
    /\ \A i \in 1..Len(text) : row[from + i - 1] = text[i]
    /\ \A i \in (from + Len(text))..(ColEnd(from, text, w) + 1) : row[i] = " "

PathCol(t) == ColEnd(1, t.v["id"].v, IdWidth) + 2
LineCol(t) == ColEnd(PathCol(t), t.v["path"].v, PathWidth) + 2
StatusCol(t) == ColEnd(LineCol(t), IntToStr(t.v["line"].v), LineWidth) + 2
CommentCol(t) == ColEnd(StatusCol(t), OpenLabel, StatusWidth) + 2

Carries(row, t) ==
    /\ HasField(row, 1, t.v["id"].v, IdWidth)
    /\ HasField(row, PathCol(t), t.v["path"].v, PathWidth)
    /\ HasField(row, LineCol(t), IntToStr(t.v["line"].v), LineWidth)
    /\ HasField(row, StatusCol(t), <<"O", "P", "E", "N">>, StatusWidth)

CommentField(row, t) == SubSeq(row, CommentCol(t), Len(row))

RECURSIVE OpenIdx(_, _, _)
OpenIdx(ts, i, last) ==
    IF i > last THEN <<>>
    ELSE (IF IsOpen(ts[i]) THEN <<i>> ELSE <<>>) \o OpenIdx(ts, i + 1, last)

\* C1: a thread whose isResolved is true or whose isOutdated is true gets no
\* row, whatever its other fields are, absent ones included: no printed row
\* belongs to such a thread, and the rows number at most the other threads.
C1_NoRowForClosedThread ==
    HasNodeList =>
        /\ \A i \in 1..Len(NodeList) :
              Flagged(NodeList[i]) => \A j \in 1..Len(row_of) : row_of[j] # i
        /\ Len(stdout) <= 2 + Len(row_of)
        /\ Len(stdout) <=
              2 + Cardinality({i \in 1..Len(NodeList) : ~Flagged(NodeList[i])})

C1_Witness ==
    /\ pc = "exited" /\ exit_status = 0 /\ HasNodeList
    /\ Len(stdout) = 3
    /\ \E i \in 1..Len(NodeList) :
          /\ IsTrue(NodeList[i], "isResolved")
          /\ ~HasKey(NodeList[i], "id")

\* C2: for a well-formed document the run ends with status 0 and the rows
\* after the separator are the threads with isOutdated false and isResolved
\* false, one row each, in input order, each row carrying the thread's id,
\* path and line and the label OPEN in its columns.
C2_RowsAreOpenThreadsInOrder ==
    (WellFormedDoc /\ pc = "exited") =>
        /\ exit_status = 0
        /\ exc = "none"
        /\ row_of = OpenIdx(NodeList, 1, Len(NodeList))
        /\ Len(stdout) = 2 + Len(row_of)
        /\ \A j \in 1..Len(row_of) : Carries(stdout[2 + j], NodeList[row_of[j]])

C2_Witness ==
    /\ WellFormedDoc /\ pc = "exited"
    /\ row_of = <<1, 2>>
    /\ NodeList[1] = T3 /\ NodeList[2] = T1

\* C3: the COMMENT field of every printed row is the first comment's body
\* with each newline replaced by a space, cut to its first 50 characters:
\* at most 50 characters, none of them a newline.
ExpectedComment(body) ==
    [i \in 1..(IF Len(body) < 50 THEN Len(body) ELSE 50) |->
        IF body[i] = "\n" THEN " " ELSE body[i]]

C3_CommentReplacedThenCut ==
    \A j \in 1..Len(row_of) :
        LET t == NodeList[row_of[j]]
            c == CommentField(stdout[2 + j], t)
        IN  HasRowFields(t) =>
              /\ c = ExpectedComment(FirstBody(t))
              /\ Len(c) <= 50
              /\ \A i \in 1..Len(c) : c[i] # "\n"

C3_Witness ==
    /\ pc = "exited"
    /\ \E j \in 1..Len(row_of) :
          /\ HasRowFields(NodeList[row_of[j]])
          /\ Len(FirstBody(NodeList[row_of[j]])) > 50
          /\ FirstBody(NodeList[row_of[j]])[50] = "\n"
          /\ FirstBody(NodeList[row_of[j]])[3] = "\n"
          /\ Len(CommentField(stdout[2 + j], NodeList[row_of[j]])) = 50

\* C4: when the path names nothing, the run writes 'Error: <path> not found'
\* to the diagnostic stream and exits with status 1; it never opens or parses
\* anything and writes nothing to standard output.
NotFoundLine ==
    IF argv[2] = <<"t", ".", "j", "s", "o", "n">>
    THEN <<"E", "r", "r", "o", "r", ":", " ", "t", ".", "j", "s", "o", "n",
         " ", "n", "o", "t", " ", "f", "o", "u", "n", "d">>
    ELSE <<"E", "r", "r", "o", "r", ":", " ", "x", ".", "j", "s", "o", "n",
         " ", "n", "o", "t", " ", "f", "o", "u", "n", "d">>

Untouched ==
    /\ stdout = <<>>
    /\ ~f_open
    /\ data.k = "unbound"
    /\ \A i \in 1..Len(trace) : trace[i] \notin {"open", "load", "close", "print"}

C4_MissingFileReported ==
    (Len(argv) >= 2 /\ fs[argv[2]].kind = "missing") =>
        /\ Untouched
        /\ pc \in {"main", "exists", "exited"}
        /\ pc = "exited" =>
              stderr = <<NotFoundLine>> /\ exit_status = 1 /\ exc = "none"
        /\ pc # "exited" => stderr = <<>>

C4_Witness ==
    /\ pc = "exited"
    /\ argv = <<Prog, PathB>>
    /\ fs[PathB].kind = "missing"
    /\ fs[PathA].kind = "json"
    /\ Len(stderr) = 1

\* C5: a document with one of the keys data, repository, pullRequest,
\* reviewThreads, nodes absent at its level, or with an empty nodes list,
\* yields zero threads and no failure: exactly the header and the separator
\* of 100 dashes are printed, no row, and the run exits with status 0.
RECURSIVE AbsentOnPath(_, _)
AbsentOnPath(v, keys) ==
    /\ keys # <<>>
    /\ v.k = "obj"
    /\ \/ Head(keys) \notin DOMAIN v.v
       \/ AbsentOnPath(v.v[Head(keys)], Tail(keys))

HeaderLine ==
    <<"T", "H", "R", "E", "A", "D", " ", "I", "D", " ", " ", " ", " ",
      " ", " ", " ", " ", " ", " ", " ", " ", "P", "A", "T", "H", " ",
      " ", " ", " ", " ", " ", " ", " ", " ", " ", " ", " ", " ", " ",
      " ", " ", " ", " ", " ", " ", " ", " ", " ", " ", " ", " ", " ",
      "L", "I", "N", "E", " ", " ", "S", "T", "A", "T", "U", "S", " ",
      " ", " ", " ", " ", "C", "O", "M", "M", "E", "N", "T">>
SeparatorLine == [i \in 1..100 |-> "-"]

C5_AbsentKeysGiveEmptyTable ==
    (HasDoc /\ (AbsentOnPath(TheDoc, PathKeys)
                \/ (HasNodeList /\ NodeList = <<>>))) =>
        /\ exc = "none"
        /\ row_of = <<>>
        /\ pc = "exited" =>
              stdout = <<HeaderLine, SeparatorLine>> /\ exit_status = 0

C5_Witness ==
    /\ pc = "exited"
    /\ HasDoc
    /\ TheDoc = JObj([data |-> JObj([repository |-> EmptyObj])])
    /\ Len(stdout) = 2

\* C6: with the path argument omitted the run writes the usage message to
\* the diagnostic stream and exits with status 1; inventory is never called,
\* no file is checked or opened, nothing is written to standard output.
UsageLine ==
    <<"U", "s", "a", "g", "e", ":", " ", "u", "v", " ", "r", "u", "n",
      " ", "p", "r", ".", "p", "y", " ", "<", "t", "h", "r", "e", "a",
      "d", "s", ".", "j", "s", "o", "n", ">">>

C6_UsageOnMissingArgument ==
    Len(argv) < 2 =>
        /\ trace = <<>>
        /\ file_path = <<>>
        /\ Untouched
        /\ pc = "exited" =>
              stderr = <<UsageLine>> /\ exit_status = 1 /\ exc = "none"
        /\ pc # "exited" => stderr = <<>>

C6_Witness ==
    /\ pc = "exited"
    /\ argv = <<Prog>>
    /\ fs[PathA].kind = "json"
    /\ Len(stderr) = 1

\* C7: a thread that is not skipped and lacks id, path or line, or has no
\* body of a first comment, ends the run in an uncaught exception: no row is
\* printed for it, the loop never gets past it, the run does not end with
\* status 0.  The same fields absent from a skipped thread cause no failure.
NoFirstBody(t) ==
    IF ~HasKey(t, "comments") THEN TRUE
    ELSE IF ~HasKey(t.v["comments"], "nodes")
         THEN t.v["comments"].k = "obj"
    ELSE IF t.v["comments"].v["nodes"].k # "arr" THEN FALSE
    ELSE IF Len(t.v["comments"].v["nodes"].v) = 0 THEN TRUE
    ELSE /\ t.v["comments"].v["nodes"].v[1].k = "obj"
         /\ ~HasKey(t.v["comments"].v["nodes"].v[1], "body")

MissingRequired(t) ==
    /\ t.k = "obj"
    /\ \/ ~HasKey(t, "id") \/ ~HasKey(t, "path") \/ ~HasKey(t, "line")
       \/ NoFirstBody(t)

Skipped(t) ==
    IsTrue(t, "isOutdated") \/ (IsFalse(t, "isOutdated") /\ IsTrue(t, "isResolved"))

C7_MissingFieldIsFatalUnlessSkipped ==
    HasNodeList =>
        /\ \A i \in 1..Len(NodeList) :
              (IsOpen(NodeList[i]) /\ MissingRequired(NodeList[i])) =>
                  /\ \A j \in 1..Len(row_of) : row_of[j] # i
                  /\ idx <= i
                  /\ pc = "exited" => exit_status = 1 /\ exc # "none"
                  /\ (pc = "exited" /\ idx = i) => exc \in {"KeyError", "IndexError"}
        /\ \A i \in 1..Len(NodeList) :
              (Skipped(NodeList[i]) /\ MissingRequired(NodeList[i])) =>
                  ~(pc = "exited" /\ exc # "none" /\ idx = i)
        /\ ((\A i \in 1..Len(NodeList) :
                Skipped(NodeList[i]) \/ WellFormedThread(NodeList[i]))
            /\ pc = "exited") => exit_status = 0 /\ exc = "none"

C7_Witness ==
    /\ pc = "exited" /\ HasNodeList /\ Len(NodeList) = 2
    /\ Skipped(NodeList[1]) /\ MissingRequired(NodeList[1])
    /\ IsOpen(NodeList[2]) /\ ~HasKey(NodeList[2], "line")
    /\ idx = 2 /\ exc = "KeyError" /\ exit_status = 1
    /\ Len(stdout) = 2

\* C8: the file handle is closed on every way out of inventory, after a
\* successful parse and after a failed one: it is closed in every terminal
\* state, closed whenever standard output holds a line, opened at most once,
\* and every line is written after the close.
C8_HandleClosedOnEveryPath ==
    /\ pc = "exited" => ~f_open
    /\ pc \in {"navigate", "header", "separator", "loop"} => ~f_open
    /\ stdout # <<>> => ~f_open
    /\ Cardinality({i \in 1..Len(trace) : trace[i] = "open"}) <= 1
    /\ f_open =>
          /\ \E i \in 1..Len(trace) : trace[i] = "open"
          /\ \A i \in 1..Len(trace) : trace[i] # "close"
    /\ \A i \in 1..Len(trace) :
          trace[i] = "print" => \E j \in 1..(i - 1) : trace[j] = "close"

C8_Witness ==
    /\ pc = "exited" /\ exc = "JSONDecodeError" /\ ~f_open
    /\ \E i \in 1..Len(trace) : trace[i] = "open"
    /\ trace[Len(trace)] = "close"

\* C9: standard output is written only after the file was found and parsed:
\* a run that fails at the existence check, at open or at parsing writes
\* nothing.  Past navigation the header is the first line and the separator
\* the second, each written once, both before every row.
C9_HeaderAndSeparatorFirst ==
    /\ stdout # <<>> =>
          /\ HasDoc
          /\ pending = "none"
          /\ data.k # "unbound" /\ data = TheDoc
          /\ threads.k # "unbound"
          /\ \E i \in 1..Len(trace) : trace[i] = "load"
    /\ (Len(argv) >= 2 /\ ~HasDoc) => stdout = <<>>
    /\ pc = "separator" => stdout = <<HeaderLine>>
    /\ (pc = "loop" \/ (pc = "exited" /\ threads.k # "unbound")) => Len(stdout) >= 2
    /\ Len(stdout) >= 1 => stdout[1] = HeaderLine
    /\ Len(stdout) >= 2 => stdout[2] = SeparatorLine
    /\ \A i \in 3..Len(stdout) : stdout[i] \notin {HeaderLine, SeparatorLine}

C9_Witness ==
    /\ pc = "exited" /\ exit_status = 0
    /\ Len(stdout) = 4
    /\ stdout[1] = HeaderLine /\ stdout[2] = SeparatorLine

\* C10: when the run fails at the k-th thread, standard output at the end
\* holds the header, the separator and the rows of the threads among the
\* first k-1 that were not skipped, in input order; no later thread is
\* examined or printed.
RECURSIVE NotSkippedIdx(_, _, _)
NotSkippedIdx(ts, i, last) ==
    IF i > last THEN <<>>
    ELSE (IF Skipped(ts[i]) THEN <<>> ELSE <<i>>) \o NotSkippedIdx(ts, i + 1, last)

FailedAtThread ==
    pc = "exited" /\ exc # "none" /\ HasNodeList /\ idx <= Len(NodeList)

C10_OutputUpToFailingThread ==
    FailedAtThread =>
        /\ ~Skipped(NodeList[idx])
        /\ row_of = NotSkippedIdx(NodeList, 1, idx - 1)
        /\ Len(stdout) = 2 + Len(row_of)
        /\ stdout[1] = HeaderLine /\ stdout[2] = SeparatorLine
        /\ \A j \in 1..Len(row_of) :
              /\ HasRowFields(NodeList[row_of[j]])
              /\ Carries(stdout[2 + j], NodeList[row_of[j]])
              /\ CommentField(stdout[2 + j], NodeList[row_of[j]])
                    = ExpectedComment(FirstBody(NodeList[row_of[j]]))

C10_Witness ==
    /\ FailedAtThread /\ Len(NodeList) = 3 /\ idx = 2
    /\ IsOpen(NodeList[1]) /\ IsOpen(NodeList[3]) /\ WellFormedThread(NodeList[3])
    /\ row_of = <<1>> /\ Len(stdout) = 3

====
